---- MODULE Spec2Model ----
(***************************************************************************)
(* Verification model of the tui-realm component runtime.                  *)
(*                                                                         *)
(* The List component (src/src/components/list.rs) is modelled as a state  *)
(* machine over its property store (`props`) and its private states        *)
(* (`states` = focus, list_index, list_len).  Every method of the          *)
(* Component implementation is one action; the helpers of OwnStates are     *)
(* operators computed the way the code computes them.                      *)
(***************************************************************************)
EXTENDS Integers, Sequences, FiniteSets, TLC

\* ------------------------------------------------------------------------
\* Bounds of the model
\* ------------------------------------------------------------------------

\* Largest number of rows of a short table handed to List::new / List::update.
MaxRows == 2

\* Largest configured "max-step" value handed to the list.
MaxStep == 2

\* ------------------------------------------------------------------------
\* Program constants
\* ------------------------------------------------------------------------

\* Step used by PageUp / PageDown when "max-step" is absent or not a Usize.
DEFAULT_MAX_STEP == 8

PROP_SCROLLABLE == "scrollable"
PROP_MAX_STEP == "max-step"
PROP_TABLE == "table"
PROP_TITLE == "title"
PROP_HIGHLIGHTED_TXT == "highlighted-txt"
COLOR_HIGHLIGHTED == "highlighted-color"

\* Label's payload keys
PROP_TEXT == "text"
PROP_ALIGNMENT == "text-alignment"

\* ------------------------------------------------------------------------
\* Property payloads (props.own : key -> Option<PropPayload>)
\* ------------------------------------------------------------------------

\* A payload is a pair <<tag, value>>: the tag is the PropValue variant.
Tag(p) == p[1]

Val(p) == p[2]

\* own.get(key) == None
NoPayload == <<"Absent", 0>>

\* PropPayload::One(PropValue::Bool(b))
PBool(b) == <<"Bool", b>>

\* PropPayload::One(PropValue::Usize(n))
PUsize(n) == <<"Usize", n>>

\* PropPayload::One(PropValue::Str(s))
PStr(s) == <<"Str", s>>

\* PropPayload::One(PropValue::Table(t)); a table is a sequence of rows,
\* a row a sequence of columns.
PTable(t) == <<"Table", t>>

\* A table of n rows, two columns each (as TableBuilder produces).
TableOfRows(n) == [i \in 1..n |-> <<"c1", "c2">>]

\* The row counts of the tables handed to the list: the short tables, and one
\* table with more rows than the default page step can cross in one page.
RowCounts == (0..MaxRows) \cup {DEFAULT_MAX_STEP + 2}

\* The values the "table" entry may hold: absent, a table, or a scalar.
TableEntries ==
    {NoPayload, PStr("not-a-table")} \cup {PTable(TableOfRows(n)) : n \in RowCounts}

\* The values the "max-step" entry may hold: absent, a Usize, or another scalar.
StepEntries ==
    {NoPayload, PStr("not-a-usize")} \cup {PUsize(n) : n \in 0..MaxStep}

\* The values the "scrollable" entry may hold: absent, a Bool, or another scalar.
ScrollableEntries ==
    {NoPayload, PStr("not-a-bool"), PBool(TRUE), PBool(FALSE)}

\* palette.get(name) == None
NoColor == "None"

\* A property store of a list: visible, with neutral colours, no modifiers, an
\* empty palette, and the payload map read by the list.
MkProps(t, s, sc) ==
    [visible    |-> TRUE,
     foreground |-> "Reset",
     background |-> "Reset",
     modifiers  |-> {},
     borders    |-> "ALL",
     palette    |-> (COLOR_HIGHLIGHTED :> NoColor),
     own        |-> (PROP_TABLE :> t) @@ (PROP_MAX_STEP :> s) @@ (PROP_SCROLLABLE :> sc)
                       @@ (PROP_TITLE :> NoPayload) @@ (PROP_HIGHLIGHTED_TXT :> NoPayload)]

\* The same store with its visibility, colours and highlighted colour set.
WithStyle(p, visible, fg, bg, highlighted) ==
    [p EXCEPT !.visible = visible,
              !.foreground = fg,
              !.background = bg,
              !.palette = (COLOR_HIGHLIGHTED :> highlighted)]

PropsSet ==
    {MkProps(t, s, sc) : t \in TableEntries, s \in StepEntries, sc \in ScrollableEntries}

\* ------------------------------------------------------------------------
\* Events and messages
\* ------------------------------------------------------------------------

KeyCodes == {"Down", "Up", "PageDown", "PageUp", "Home", "End", "Delete"}

KeyModifiers == {"NONE", "SHIFT"}

\* crossterm KeyEvent { code, modifiers }
KeyEvents == [code : KeyCodes, modifiers : KeyModifiers]

KeyEventFrom(code) == [code |-> code, modifiers |-> "NONE"]

\* The key slot of an event or message that carries no key.
NoKey == [code |-> "None", modifiers |-> "NONE"]

\* Event::Key(key), Event::Mouse(..), Event::Resize(..)
EventKey(key) == [type |-> "Key", key |-> key]

NonKeyEvents == {[type |-> "Mouse", key |-> NoKey], [type |-> "Resize", key |-> NoKey]}

Events == {EventKey(k) : k \in KeyEvents} \cup NonKeyEvents

\* Msg::None
MsgNone == [type |-> "None", key |-> NoKey]

\* Msg::OnKey(key)
MsgOnKey(key) == [type |-> "OnKey", key |-> key]

\* ------------------------------------------------------------------------
\* OwnStates: { focus, list_index, list_len } and its helpers
\* ------------------------------------------------------------------------

\* Variant of set_list_len that keeps the cached length.
set_list_len_keeps(s, len) == s

\* OwnStates::set_list_len
set_list_len(s, len) == [s EXCEPT !.list_len = len]

\* Variant of incr_list_index whose bound check is off by one (<= for <).
incr_list_index_off_by_one(s) ==
    IF s.list_index + 1 <= s.list_len
    THEN [s EXCEPT !.list_index = s.list_index + 1]
    ELSE s

\* OwnStates::incr_list_index: advance unless the index is at the last element
incr_list_index(s) ==
    IF s.list_index + 1 < s.list_len
    THEN [s EXCEPT !.list_index = s.list_index + 1]
    ELSE s

\* Variant of decr_list_index that stops one row early (> 1 for > 0).
decr_list_index_stops_early(s) ==
    IF s.list_index > 1
    THEN [s EXCEPT !.list_index = s.list_index - 1]
    ELSE s

\* OwnStates::decr_list_index: retreat unless the index is 0
decr_list_index(s) ==
    IF s.list_index > 0
    THEN [s EXCEPT !.list_index = s.list_index - 1]
    ELSE s

\* Variant of fix_list_index that only handles the empty list and never
\* clamps the index of a non-empty one.
fix_list_index_no_clamp(s) ==
    IF s.list_len = 0 THEN [s EXCEPT !.list_index = 0] ELSE s

\* Variant of fix_list_index that sends an index past the end to the first row.
fix_list_index_rehomes(s) ==
    IF s.list_index >= s.list_len /\ s.list_len > 0
    THEN [s EXCEPT !.list_index = 0]
    ELSE IF s.list_len = 0
         THEN [s EXCEPT !.list_index = 0]
         ELSE s

\* OwnStates::fix_list_index: keep the index if possible, otherwise length - 1
fix_list_index(s) ==
    IF s.list_index >= s.list_len /\ s.list_len > 0
    THEN [s EXCEPT !.list_index = s.list_len - 1]
    ELSE IF s.list_len = 0
         THEN [s EXCEPT !.list_index = 0]
         ELSE s

\* OwnStates::list_index_at_first
list_index_at_first(s) == [s EXCEPT !.list_index = 0]

\* Variant of list_index_at_last that lands one past the last row.
list_index_at_last_past_end(s) ==
    IF s.list_len > 0
    THEN [s EXCEPT !.list_index = s.list_len]
    ELSE [s EXCEPT !.list_index = 0]

\* Variant of list_index_at_last without the list_len > 0 guard: on an empty
\* list the subtraction leaves the naturals.
list_index_at_last_unguarded(s) == [s EXCEPT !.list_index = s.list_len - 1]

\* OwnStates::list_index_at_last
list_index_at_last(s) ==
    IF s.list_len > 0
    THEN [s EXCEPT !.list_index = s.list_len - 1]
    ELSE [s EXCEPT !.list_index = 0]

\* OwnStates::calc_max_step_ahead: the rows left below the index, capped by max
\* (the usize subtraction is only evaluated with list_index <= list_len - 1 in
\* the reachable states, where it equals the integer one)
calc_max_step_ahead(s, max) ==
    LET remaining == IF s.list_len = 0 THEN 0 ELSE s.list_len - 1 - s.list_index
    IN  IF remaining > max THEN max ELSE remaining

\* Variant of calc_max_step_behind that forgets the cap.
calc_max_step_behind_uncapped(s, max) == s.list_index

\* OwnStates::calc_max_step_behind: the rows above the index, capped by max
calc_max_step_behind(s, max) ==
    IF s.list_index > max THEN max ELSE s.list_index

\* Variant of the PageDown loop that runs once more (0..=step).
RECURSIVE incr_list_index_inclusive(_, _)
incr_list_index_inclusive(s, step) ==
    IF step < 0
    THEN s
    ELSE incr_list_index_inclusive(
             IF s.list_index + 1 < s.list_len
             THEN [s EXCEPT !.list_index = s.list_index + 1]
             ELSE s,
             step - 1)

\* (0..step).for_each(|_| self.states.incr_list_index())
RECURSIVE incr_list_index_times(_, _)
incr_list_index_times(s, step) ==
    IF step <= 0 THEN s ELSE incr_list_index_times(incr_list_index(s), step - 1)

\* Variant of the PageUp loop that runs at most once.
decr_list_index_once(s, step) == IF step <= 0 THEN s ELSE decr_list_index(s)

\* (0..step).for_each(|_| self.states.decr_list_index())
RECURSIVE decr_list_index_times(_, _)
decr_list_index_times(s, step) ==
    IF step <= 0 THEN s ELSE decr_list_index_times(decr_list_index(s), step - 1)

\* ------------------------------------------------------------------------
\* List: a component is the pair of its props and its states
\* ------------------------------------------------------------------------

\* match props.own.get(PROP_TABLE) { Some(One(Table(t))) => t.len(), _ => 0 }
table_len(props) ==
    IF Tag(props.own[PROP_TABLE]) = "Table" THEN Len(Val(props.own[PROP_TABLE])) ELSE 0

\* Variant of max_step that ignores the configured value.
max_step_always_default(props) == DEFAULT_MAX_STEP

\* match props.own.get(PROP_MAX_STEP) { Some(One(Usize(step))) => *step, _ => 8 }
max_step(props) ==
    IF Tag(props.own[PROP_MAX_STEP]) = "Usize"
    THEN Val(props.own[PROP_MAX_STEP])
    ELSE DEFAULT_MAX_STEP

\* Variant of List::scrollable whose default is true: only Bool(false) turns
\* scrolling off.
List_scrollable_by_default(c) ==
    IF Tag(c.props.own[PROP_SCROLLABLE]) = "Bool"
    THEN Val(c.props.own[PROP_SCROLLABLE])
    ELSE TRUE

\* List::scrollable: the value of the scrollable flag, false by default
List_scrollable(c) ==
    IF Tag(c.props.own[PROP_SCROLLABLE]) = "Bool"
    THEN Val(c.props.own[PROP_SCROLLABLE])
    ELSE FALSE

\* List::new
List_new(props) ==
    [props  |-> props,
     states |-> [focus |-> FALSE, list_index |-> 0, list_len |-> table_len(props)]]

\* Variant of List::blur that flips the focus flag.
List_blur_toggles(c) == [c EXCEPT !.states.focus = ~c.states.focus]

\* Variant of List::blur that also sends the index back to the first row.
List_blur_rehomes(c) == [c EXCEPT !.states.focus = FALSE, !.states.list_index = 0]

\* List::blur
List_blur(c) == [c EXCEPT !.states.focus = FALSE]

\* Variant of List::active that takes the focus whatever the scrollable flag.
List_active_unguarded(c) == [c EXCEPT !.states.focus = TRUE]

\* List::active
List_active(c) ==
    IF List_scrollable(c) THEN [c EXCEPT !.states.focus = TRUE] ELSE c

\* Variant of List::update that blurs whatever the new properties say.
List_update_always_blurs(c, props) ==
    LET c1 == [c EXCEPT !.props = props]
        c2 == [c1 EXCEPT !.states = set_list_len(c1.states, table_len(c1.props))]
        c3 == [c2 EXCEPT !.states = fix_list_index(c2.states)]
    IN  List_blur(c3)

\* List::update: the component after the call (the call returns Msg::None)
List_update(c, props) ==
    LET c1 == [c EXCEPT !.props = props]
        c2 == [c1 EXCEPT !.states = set_list_len(c1.states, table_len(c1.props))]
        c3 == [c2 EXCEPT !.states = fix_list_index(c2.states)]
    IN  IF List_scrollable(c3) THEN List_blur(c3) ELSE c3

\* Variant of List::update that reports a change of the properties.
List_update_msg_on_change(c, props) ==
    IF props # c.props THEN [type |-> "OnChange", key |-> NoKey] ELSE MsgNone

\* List::update: the returned message
List_update_msg(c, props) == MsgNone

\* List::on: the states after a key event on a scrollable list
List_on_key(c, key) ==
    CASE key.code = "Down"     -> incr_list_index(c.states)
      [] key.code = "Up"       -> decr_list_index(c.states)
      [] key.code = "PageDown" ->
            incr_list_index_times(c.states,
                                  calc_max_step_ahead(c.states, max_step(c.props)))
      [] key.code = "PageUp"   ->
            decr_list_index_times(c.states,
                                  calc_max_step_behind(c.states, max_step(c.props)))
      [] key.code = "End"      -> list_index_at_last(c.states)
      [] key.code = "Home"     -> list_index_at_first(c.states)
      [] OTHER                 -> c.states

\* Variant of List::on that navigates without consulting the scrollable flag.
List_on_unguarded(c, ev) ==
    IF ev.type = "Key"
    THEN [c EXCEPT !.states = List_on_key(c, ev.key)]
    ELSE c

\* Variant of List::on in which an event that is not a key re-homes the index.
List_on_rehoming(c, ev) ==
    IF ev.type = "Key"
    THEN IF List_scrollable(c)
         THEN [c EXCEPT !.states = List_on_key(c, ev.key)]
         ELSE c
    ELSE [c EXCEPT !.states = list_index_at_first(c.states)]

\* List::on: the component after the event
List_on(c, ev) ==
    IF ev.type = "Key"
    THEN IF List_scrollable(c)
         THEN [c EXCEPT !.states = List_on_key(c, ev.key)]
         ELSE c
    ELSE c

\* Variant of List::on's answer whose catch-all arm drops the key.
List_on_msg_drops_unhandled(c, ev) ==
    IF ev.type = "Key"
    THEN IF List_scrollable(c) /\ ev.key.code \notin {"Down", "Up", "PageDown", "PageUp", "End", "Home"}
         THEN MsgNone
         ELSE MsgOnKey(ev.key)
    ELSE MsgNone

\* List::on: the returned message, arm by arm
List_on_msg(c, ev) ==
    IF ev.type = "Key"
    THEN IF List_scrollable(c)
         THEN CASE ev.key.code = "Down"     -> MsgOnKey(ev.key)
                [] ev.key.code = "Up"       -> MsgOnKey(ev.key)
                [] ev.key.code = "PageDown" -> MsgOnKey(ev.key)
                [] ev.key.code = "PageUp"   -> MsgOnKey(ev.key)
                [] ev.key.code = "End"      -> MsgOnKey(ev.key)
                [] ev.key.code = "Home"     -> MsgOnKey(ev.key)
                [] OTHER                    -> MsgOnKey(ev.key)
         ELSE MsgOnKey(ev.key)
    ELSE MsgNone

\* Variant of the active flag of List::render that follows the focus flag
\* whatever the scrollable flag.
List_render_active_is_focus(c) == c.states.focus

\* List::render: let active = match self.scrollable() { true => focus, false => true }
List_render_active(c) ==
    IF List_scrollable(c) THEN c.states.focus ELSE TRUE

\* Variant of List::render that draws whatever the visibility flag says.
List_render_always(c) ==
    <<[widget |-> "List", selected |-> <<c.states.list_index>>]>>

\* List::render: what is drawn into the area, <<>> when nothing is.  The
\* block and the item styles are built by helpers of components/utils from the
\* arguments recorded here.
List_render(c) ==
    IF c.props.visible
    THEN LET active == List_render_active(c)
             title == IF Tag(c.props.own[PROP_TITLE]) = "Str"
                      THEN <<Val(c.props.own[PROP_TITLE])>>
                      ELSE <<>>
             div == [borders |-> c.props.borders, title |-> title, active |-> active]
             list_items ==
                 IF Tag(c.props.own[PROP_TABLE]) = "Table"
                 THEN [rows      |-> Val(c.props.own[PROP_TABLE]),
                       fg        |-> c.props.foreground,
                       bg        |-> c.props.background,
                       modifiers |-> c.props.modifiers]
                 ELSE [rows      |-> <<>>,
                       fg        |-> c.props.foreground,
                       bg        |-> c.props.background,
                       modifiers |-> c.props.modifiers]
             highlighted_color ==
                 IF c.props.palette[COLOR_HIGHLIGHTED] = NoColor
                 THEN IF c.states.focus THEN c.props.background ELSE c.props.foreground
                 ELSE c.props.palette[COLOR_HIGHLIGHTED]
             fg == IF active THEN c.props.background ELSE highlighted_color
             bg == IF active THEN highlighted_color ELSE c.props.background
             highlight_symbol ==
                 IF Tag(c.props.own[PROP_HIGHLIGHTED_TXT]) = "Str"
                 THEN <<Val(c.props.own[PROP_HIGHLIGHTED_TXT])>>
                 ELSE <<>>
         IN  <<[widget           |-> "List",
                block            |-> div,
                items            |-> list_items,
                highlight_style  |-> [fg |-> fg, bg |-> bg, modifiers |-> c.props.modifiers],
                highlight_symbol |-> highlight_symbol,
                selected         |-> IF List_scrollable(c)
                                     THEN <<c.states.list_index>>
                                     ELSE <<>>]>>
    ELSE <<>>

\* Payload::None
PayloadNone == <<"None", 0>>

\* Variant of List::get_state that returns the selected index.
List_get_state_index(c) == <<"Usize", c.states.list_index>>

\* List::get_state
List_get_state(c) == PayloadNone

\* Variant of List::get_props that returns a fresh property store.
List_get_props_fresh(c) == MkProps(NoPayload, NoPayload, NoPayload)

\* List::get_props: a copy of the properties
List_get_props(c) == c.props

\* ------------------------------------------------------------------------
\* Label: a component with properties and no states
\* ------------------------------------------------------------------------

\* A property store of a label.
MkLabelProps(visible, text) ==
    [visible    |-> visible,
     foreground |-> "Reset",
     background |-> "Reset",
     modifiers  |-> {},
     borders    |-> "ALL",
     palette    |-> (COLOR_HIGHLIGHTED :> NoColor),
     own        |-> (PROP_TEXT :> text) @@ (PROP_ALIGNMENT :> NoPayload)]

LabelPropsSet ==
    {MkLabelProps(v, t) : v \in BOOLEAN, t \in {NoPayload, PStr("Hello, world!")}}

\* Label::new
Label_new(p) == [props |-> p]

\* Label::render: what is drawn into the area, <<>> when nothing is
Label_render(c) ==
    IF c.props.visible
    THEN LET text == IF Tag(c.props.own[PROP_TEXT]) = "Str"
                     THEN Val(c.props.own[PROP_TEXT])
                     ELSE ""
             alignment == IF Tag(c.props.own[PROP_ALIGNMENT]) = "Alignment"
                          THEN Val(c.props.own[PROP_ALIGNMENT])
                          ELSE "Left"
         IN  <<[widget    |-> "Paragraph",
                text      |-> text,
                style     |-> [fg        |-> c.props.foreground,
                               bg        |-> c.props.background,
                               modifiers |-> c.props.modifiers],
                alignment |-> alignment]>>
    ELSE <<>>

\* ------------------------------------------------------------------------
\* Props builders: ListPropsBuilder / LabelPropsBuilder { props: Option<Props> }
\* A builder is <<props>> (Some) or <<>> (None, after build).
\* ------------------------------------------------------------------------

\* Props::default(): visible, neutral colours, no modifiers, empty palette and
\* empty payload map.
DefaultProps ==
    [visible    |-> TRUE,
     foreground |-> "Reset",
     background |-> "Reset",
     modifiers  |-> {},
     borders    |-> "ALL",
     palette    |-> (COLOR_HIGHLIGHTED :> NoColor),
     own        |-> [k \in {PROP_TABLE, PROP_MAX_STEP, PROP_SCROLLABLE, PROP_TITLE,
                            PROP_HIGHLIGHTED_TXT, PROP_TEXT, PROP_ALIGNMENT} |-> NoPayload]]

\* ListPropsBuilder::default / LabelPropsBuilder::default
Builder_default == <<DefaultProps>>

\* ListPropsBuilder::from(props) / LabelPropsBuilder::from(props)
Builder_from(p) == <<p>>

\* The outcome of a call of build: the builder left behind, the props
\* returned (<<>> when none are), and whether the call panicked.
BuildOutcome(b, returned, panic) == [builder |-> b, built |-> returned, panicked |-> panic]

\* Variant of build that hands out default props when the builder is spent
\* (unwrap_or_default for unwrap).
ListBuilder_build_or_default(b) ==
    IF b = <<>>
    THEN BuildOutcome(<<>>, <<DefaultProps>>, FALSE)
    ELSE BuildOutcome(<<>>, b, FALSE)

\* ListPropsBuilder::build: self.props.take().unwrap()
ListBuilder_build(b) ==
    IF b = <<>>
    THEN BuildOutcome(<<>>, <<>>, TRUE)
    ELSE BuildOutcome(<<>>, b, FALSE)

\* LabelPropsBuilder::build: self.props.take().unwrap()
LabelBuilder_build(b) ==
    IF b = <<>>
    THEN BuildOutcome(<<>>, <<>>, TRUE)
    ELSE BuildOutcome(<<>>, b, FALSE)

\* hidden
Builder_hidden(b) ==
    IF b # <<>> THEN <<[b[1] EXCEPT !.visible = FALSE]>> ELSE b

\* visible
Builder_visible(b) ==
    IF b # <<>> THEN <<[b[1] EXCEPT !.visible = TRUE]>> ELSE b

\* with_foreground
Builder_with_foreground(b, color) ==
    IF b # <<>> THEN <<[b[1] EXCEPT !.foreground = color]>> ELSE b

\* Variant of the modifier setters that replaces the flags set so far.
Builder_modifier_replaces(b, flag) ==
    IF b # <<>> THEN <<[b[1] EXCEPT !.modifiers = {flag}]>> ELSE b

\* bold, italic, underlined, slow_blink, rapid_blink, reversed,
\* strikethrough: props.modifiers |= Modifier::FLAG
Builder_modifier(b, flag) ==
    IF b # <<>> THEN <<[b[1] EXCEPT !.modifiers = b[1].modifiers \cup {flag}]>> ELSE b

\* with_background
Builder_with_background(b, color) ==
    IF b # <<>> THEN <<[b[1] EXCEPT !.background = color]>> ELSE b

\* ListPropsBuilder::with_title
ListBuilder_with_title(b, title) ==
    IF b # <<>> THEN <<[b[1] EXCEPT !.own[PROP_TITLE] = PStr(title)]>> ELSE b

\* ListPropsBuilder::with_max_scroll_step
ListBuilder_with_max_scroll_step(b, step) ==
    IF b # <<>> THEN <<[b[1] EXCEPT !.own[PROP_MAX_STEP] = PUsize(step)]>> ELSE b

\* Variant of with_rows that gives a spent builder a fresh property store.
ListBuilder_with_rows_revives(b, table) ==
    <<[(IF b # <<>> THEN b[1] ELSE DefaultProps) EXCEPT !.own[PROP_TABLE] = PTable(table)]>>

\* ListPropsBuilder::with_rows
ListBuilder_with_rows(b, table) ==
    IF b # <<>> THEN <<[b[1] EXCEPT !.own[PROP_TABLE] = PTable(table)]>> ELSE b

\* ListPropsBuilder::scrollable
ListBuilder_scrollable(b, scrollable) ==
    IF b # <<>> THEN <<[b[1] EXCEPT !.own[PROP_SCROLLABLE] = PBool(scrollable)]>> ELSE b

\* LabelPropsBuilder::with_text
LabelBuilder_with_text(b, text) ==
    IF b # <<>> THEN <<[b[1] EXCEPT !.own[PROP_TEXT] = PStr(text)]>> ELSE b

\* ------------------------------------------------------------------------
\* Label: the other methods of the component
\* ------------------------------------------------------------------------

\* Label::update: the properties are replaced (the call returns Msg::None)
Label_update(c, p) == [c EXCEPT !.props = p]

\* Label::update: the returned message
Label_update_msg(c, p) == MsgNone

\* Label::get_state
Label_get_state(c) == PayloadNone

\* Label::on: a label has no states to change
Label_on(c, ev) == c

\* Variant of Label::on that answers every event with Msg::None.
Label_on_msg_swallows_keys(c, ev) == MsgNone

\* Label::on: the returned message, Msg::OnKey(key) for a key, else Msg::None
Label_on_msg(c, ev) ==
    IF ev.type = "Key" THEN MsgOnKey(ev.key) ELSE MsgNone

\* Label::get_props: a copy of the properties
Label_get_props(c) == c.props

\* Label::blur: does nothing
Label_blur(c) == c

\* Label::active: does nothing
Label_active(c) == c

\* ------------------------------------------------------------------------
\* Box<dyn Component>: a mounted component, dispatched on its concrete type.
\* states is <<s>> for a List and <<>> for a Label, which has none.
\* ------------------------------------------------------------------------

BoxList(c) == [kind |-> "List", props |-> c.props, states |-> <<c.states>>]

BoxLabel(c) == [kind |-> "Label", props |-> c.props, states |-> <<>>]

\* The List inside a box.
UnboxList(b) == [props |-> b.props, states |-> b.states[1]]

\* The Label inside a box.
UnboxLabel(b) == [props |-> b.props]

\* Component::on
Component_on(b, ev) ==
    IF b.kind = "List"
    THEN BoxList(List_on(UnboxList(b), ev))
    ELSE BoxLabel(Label_on(UnboxLabel(b), ev))

\* Component::on: the returned message
Component_on_msg(b, ev) ==
    IF b.kind = "List"
    THEN List_on_msg(UnboxList(b), ev)
    ELSE Label_on_msg(UnboxLabel(b), ev)

\* Component::update
Component_update(b, p) ==
    IF b.kind = "List"
    THEN BoxList(List_update(UnboxList(b), p))
    ELSE BoxLabel(Label_update(UnboxLabel(b), p))

\* Component::blur
Component_blur(b) ==
    IF b.kind = "List"
    THEN BoxList(List_blur(UnboxList(b)))
    ELSE BoxLabel(Label_blur(UnboxLabel(b)))

\* Component::active
Component_active(b) ==
    IF b.kind = "List"
    THEN BoxList(List_active(UnboxList(b)))
    ELSE BoxLabel(Label_active(UnboxLabel(b)))

\* Component::get_props
Component_get_props(b) ==
    IF b.kind = "List"
    THEN List_get_props(UnboxList(b))
    ELSE Label_get_props(UnboxLabel(b))

\* Whether the component holds its own focus flag set.
Component_has_focus(b) == b.kind = "List" /\ b.states[1].focus

\* ------------------------------------------------------------------------
\* View: the registry of mounted components and the focus pointer.
\* A view is [components |-> id -> Box<dyn Component>, focus |-> <<>> or <<id>>].
\* ------------------------------------------------------------------------

\* The mapping with no entry.
NoComponents == [id \in {} |-> BoxLabel(Label_new(MkLabelProps(TRUE, NoPayload)))]

\* View::init
View_init == [components |-> NoComponents, focus |-> <<>>]

\* The outcome of a call on the view: the view after it, Ok or Err, and the
\* message returned (MsgNone when the call returns none).
ViewOutcome(v, result, m) == [view |-> v, result |-> result, msg |-> m]

\* The mapping without the entry of id.
WithoutEntry(components, id) ==
    [i \in (DOMAIN components) \ {id} |-> components[i]]

\* Variant of mount that keeps the states of a component of the same kind
\* already mounted under id.
View_mount_merges(v, id, b) ==
    IF id \in DOMAIN v.components /\ v.components[id].kind = b.kind
    THEN [v EXCEPT !.components[id] = [b EXCEPT !.states = v.components[id].states]]
    ELSE [v EXCEPT !.components = (id :> b) @@ v.components]

\* View::mount: inserts; a component already mounted under id is replaced
View_mount(v, id, b) ==
    [v EXCEPT !.components = (id :> b) @@ v.components]

\* Variant of unmount that leaves the focus pointer on the removed id.
View_unmount_keeps_focus(v, id) ==
    [v EXCEPT !.components = WithoutEntry(v.components, id)]

\* Variant of unmount that hands the focus of the removed id to a component
\* still mounted, when there is one.
View_unmount_refocuses(v, id) ==
    LET rest == WithoutEntry(v.components, id)
    IN  [components |-> rest,
         focus |-> IF v.focus = <<id>>
                   THEN IF DOMAIN rest = {} THEN <<>> ELSE <<CHOOSE i \in DOMAIN rest : TRUE>>
                   ELSE v.focus]

\* View::unmount: removes; the focus becomes empty if id held it
View_unmount(v, id) ==
    [components |-> WithoutEntry(v.components, id),
     focus |-> IF v.focus = <<id>> THEN <<>> ELSE v.focus]

\* Variant of active that gives the focus up when id is absent.
View_active_drops_focus_on_error(v, id) ==
    IF id \notin DOMAIN v.components
    THEN [view |-> [v EXCEPT !.focus = <<>>], result |-> "Err", msg |-> MsgNone]
    ELSE [view |-> [components |-> [[i \in DOMAIN v.components |->
                                        Component_blur(v.components[i])]
                                       EXCEPT ![id] = Component_active(@)],
                    focus |-> <<id>>],
          result |-> "Ok", msg |-> MsgNone]

\* View::active: an error if id is absent; otherwise the component that held
\* the focus is blurred, the component of id is activated and holds the focus
View_active(v, id) ==
    IF id \notin DOMAIN v.components
    THEN ViewOutcome(v, "Err", MsgNone)
    ELSE LET blurred == IF v.focus # <<>>
                        THEN [v.components EXCEPT ![v.focus[1]] = Component_blur(@)]
                        ELSE v.components
         IN  ViewOutcome([components |-> [blurred EXCEPT ![id] = Component_active(@)],
                          focus |-> <<id>>],
                         "Ok", MsgNone)

\* Variant of on that hands the event to some mounted component when none
\* holds the focus.
View_on_falls_back(v, ev) ==
    LET target == IF v.focus # <<>>
                  THEN v.focus
                  ELSE IF DOMAIN v.components = {}
                       THEN <<>>
                       ELSE <<CHOOSE i \in DOMAIN v.components : TRUE>>
    IN  IF target = <<>>
        THEN [view |-> v, result |-> "Ok", msg |-> MsgNone]
        ELSE [view |-> [v EXCEPT !.components[target[1]] = Component_on(@, ev)],
              result |-> "Ok",
              msg |-> Component_on_msg(v.components[target[1]], ev)]

\* View::on: the event goes to the component that holds the focus; without
\* one, the no-op message and no effect
View_on(v, ev) ==
    IF v.focus = <<>>
    THEN ViewOutcome(v, "Ok", MsgNone)
    ELSE LET id == v.focus[1]
         IN  ViewOutcome([v EXCEPT !.components[id] = Component_on(@, ev)],
                         "Ok", Component_on_msg(v.components[id], ev))

\* Variant of update that succeeds without effect when id is absent.
View_update_silent(v, id, p) ==
    IF id \notin DOMAIN v.components
    THEN [view |-> v, result |-> "Ok", msg |-> MsgNone]
    ELSE [view |-> [v EXCEPT !.components[id] = Component_update(@, p)],
          result |-> "Ok", msg |-> MsgNone]

\* View::update: an error if id is absent; otherwise the component's update
View_update(v, id, p) ==
    IF id \notin DOMAIN v.components
    THEN ViewOutcome(v, "Err", MsgNone)
    ELSE ViewOutcome([v EXCEPT !.components[id] = Component_update(@, p)],
                     "Ok", MsgNone)

\* View::get_props: an error if id is absent; otherwise a copy of the
\* component's properties
View_get_props(v, id) ==
    IF id \notin DOMAIN v.components
    THEN [result |-> "Err", props |-> <<>>]
    ELSE [result |-> "Ok", props |-> <<Component_get_props(v.components[id])>>]

\* View::attr: an error if id is absent; otherwise the one named attribute of
\* the component's properties is set and the component updated with them
View_attr(v, id, attr, value) ==
    IF id \notin DOMAIN v.components
    THEN ViewOutcome(v, "Err", MsgNone)
    ELSE LET p == Component_get_props(v.components[id])
         IN  ViewOutcome([v EXCEPT !.components[id] =
                                Component_update(@, [p EXCEPT !.own[attr] = value])],
                         "Ok", MsgNone)

\* View::render: delegates to the render of the component mounted under
\* id; nothing is drawn when none is
View_render(v, id) ==
    IF id \notin DOMAIN v.components
    THEN <<>>
    ELSE IF v.components[id].kind = "List"
         THEN List_render(UnboxList(v.components[id]))
         ELSE Label_render(UnboxLabel(v.components[id]))

\* View::on as the loop receives it, Option<(String, Msg)>: None without a
\* focused component, else the identifier of the component and its message
View_on_result(v, ev) ==
    IF v.focus = <<>>
    THEN <<>>
    ELSE <<v.focus[1], View_on(v, ev).msg>>

\* ------------------------------------------------------------------------
\* Model: the application of the gallery example and its update loop
\* ------------------------------------------------------------------------

\* The progress bar advances by 0.05 and starts again past 1.0; in percent.
PROGRESS_STEP == 5

PROGRESS_FULL == 100

MSG_KEY_TAB == MsgOnKey(KeyEventFrom("Tab"))

MSG_KEY_ESC == MsgOnKey(KeyEventFrom("Esc"))

\* The identifiers of the example: the scrollable list and the label.
COMPONENT_SCROLLIST == "A"

COMPONENT_LABEL == "B"

\* The component that takes the focus when Tab comes from a component.
NextFocus == (COMPONENT_SCROLLIST :> COMPONENT_LABEL) @@ (COMPONENT_LABEL :> COMPONENT_SCROLLIST)

\* Variant of the loop condition that does not read the quit flag.
LoopContinues_ignores_quit(q) == TRUE

\* while !model.quit
LoopContinues(q) == ~q

\* Model::quit
Model_quit(q) == TRUE

\* Model::redraw
Model_redraw(r) == TRUE

\* Variant of Model::reset that leaves the dirty flag as it is.
Model_reset_keeps_flag(r) == r

\* Model::reset (the flag; last_redraw is the clock's)
Model_reset(r) == FALSE

\* update_progress: the progress of the progress bar after the call
update_progress(p) ==
    IF p + PROGRESS_STEP > PROGRESS_FULL THEN 0 ELSE p + PROGRESS_STEP

\* Model::update: the view, the quit flag and the progress after the call.
\* Tab from a component gives the focus to the next and advances the
\* progress bar, Esc from any component quits, and any other message, or
\* none, changes nothing. (No component of the model emits OnSubmit.)
Model_update(v, q, p, m) ==
    IF m = <<>>
    THEN [view |-> v, quit |-> q, progress |-> p]
    ELSE IF m[2] = MSG_KEY_TAB /\ m[1] \in DOMAIN NextFocus
         THEN [view |-> View_active(v, NextFocus[m[1]]).view,
               quit |-> q,
               progress |-> update_progress(p)]
         ELSE IF m[2] = MSG_KEY_ESC
              THEN [view |-> v, quit |-> Model_quit(q), progress |-> p]
              ELSE [view |-> v, quit |-> q, progress |-> p]

\* ------------------------------------------------------------------------
\* The List state machine
\* ------------------------------------------------------------------------

VARIABLES
    props,      \* List.props
    states,     \* List.states
    msg,        \* the value returned by the last call
    last,       \* the last call: its name and its event
    script_pc,  \* number of keys of the scripted scenario fed so far
    trace,      \* the index after each key of the scripted scenario
    frame,      \* what the last call drew: <<>>, or <<widget>> after a render
    label,      \* a Label component (its props)
    builder,    \* a props builder: <<props>>, or <<>> once built
    builder_kind, \* "List" for a ListPropsBuilder, "Label" for a LabelPropsBuilder
    built,      \* the props returned by the last build: <<props>>, or <<>>
    panicked,   \* whether a call panicked (the program is aborting)
    components, \* the view's mapping from identifier to mounted component
    view_focus, \* the view's focus: <<id>>, or <<>> when no component holds it
    view_id,    \* the identifier passed to the last call on the view
    view_result, \* "Ok" or "Err", as the last call on the view returned
    view_arg,   \* the component or properties passed to the last call on the
                \* view: <<value>>, or <<>> when the call takes none
    ret,        \* the properties or payload the last call returned:
                \* <<value>>, or <<>> when it returned none
    pc,         \* the position of the update loop
    quit,       \* Model.quit
    redraw,     \* Model.redraw, the dirty flag
    event,      \* the event read in this iteration: <<ev>>, or <<>>
    loop_msg,   \* what view.on returned: <<id, msg>>, or <<>> for None
    progress,   \* the progress shown by the progress bar, in percent
    undrawn     \* whether an event was routed since the view was last drawn

vars == <<props, states, msg, last, script_pc, trace, frame, label,
          builder, builder_kind, built, panicked,
          components, view_focus, view_id, view_result, view_arg, ret,
          pc, quit, redraw, event, loop_msg, progress, undrawn>>

\* The variables of the update loop.
loopVars == <<pc, quit, redraw, event, loop_msg, progress, undrawn>>

\* The variables of the view.
viewVars == <<components, view_focus, view_id, view_result, view_arg>>

\* The variables of the builder.
builderVars == <<builder, builder_kind, built, panicked>>

\* What a method of the List cannot reach: the other components, the builders.
outside == <<label, builderVars, viewVars, loopVars>>

\* No identifier was passed yet.
NoId == ""

\* The view is as View::init left it.
IdleView ==
    /\ components = View_init.components
    /\ view_focus = View_init.focus
    /\ view_id = NoId
    /\ view_result = "Ok"
    /\ view_arg = <<>>

\* No update loop is running.
IdleLoop ==
    /\ pc = "none"
    /\ quit = FALSE
    /\ redraw = FALSE
    /\ event = <<>>
    /\ loop_msg = <<>>
    /\ progress = 0
    /\ undrawn = FALSE

\* No builder is in use: a fresh one sits unused.
IdleBuilder ==
    /\ builder = Builder_default
    /\ builder_kind = "List"
    /\ built = <<>>
    /\ panicked = FALSE

\* No scripted scenario is running.
IdleScript ==
    /\ script_pc = 0
    /\ trace = <<>>

\* The component held by the variables.
component == [props |-> props, states |-> states]

NoEvent == [type |-> "None", key |-> NoKey]

\* The value of a call that returns () or Self.
NoReturn == [type |-> "Unit", key |-> NoKey]

Called(op, ev) == [op |-> op, ev |-> ev]

\* let mut component = List::new(props)
Init ==
    \E p \in PropsSet :
        /\ props = List_new(p).props
        /\ states = List_new(p).states
        /\ msg = NoReturn
        /\ last = Called("new", NoEvent)
        /\ IdleScript
        /\ IdleBuilder
        /\ IdleView
        /\ IdleLoop
        /\ ret = <<>>
        /\ frame = <<>>
        /\ label = Label_new(MkLabelProps(TRUE, NoPayload))

\* component.on(ev)
On(ev) ==
    LET c == List_on(component, ev)
    IN  /\ props' = c.props
        /\ states' = c.states
        /\ msg' = List_on_msg(component, ev)
        /\ last' = Called("on", ev)
        /\ frame' = <<>>
        /\ UNCHANGED <<script_pc, trace, outside>>
        /\ ret' = <<>>

\* component.update(p)
Update(p) ==
    LET c == List_update(component, p)
    IN  /\ props' = c.props
        /\ states' = c.states
        /\ msg' = List_update_msg(component, p)
        /\ last' = Called("update", NoEvent)
        /\ frame' = <<>>
        /\ UNCHANGED <<script_pc, trace, outside>>
        /\ ret' = <<>>

\* component.active()
Active ==
    LET c == List_active(component)
    IN  /\ props' = c.props
        /\ states' = c.states
        /\ msg' = NoReturn
        /\ last' = Called("active", NoEvent)
        /\ frame' = <<>>
        /\ UNCHANGED <<script_pc, trace, outside>>
        /\ ret' = <<>>

\* component.blur()
Blur ==
    LET c == List_blur(component)
    IN  /\ props' = c.props
        /\ states' = c.states
        /\ msg' = NoReturn
        /\ last' = Called("blur", NoEvent)
        /\ frame' = <<>>
        /\ UNCHANGED <<script_pc, trace, outside>>
        /\ ret' = <<>>

Next ==
    \/ \E ev \in Events : On(ev)
    \/ \E p \in PropsSet : Update(p)
    \/ Active
    \/ Blur

Spec == Init /\ [][Next]_vars

\* ------------------------------------------------------------------------
\* Rendering: a List and a Label with styled properties, drawn between calls
\* ------------------------------------------------------------------------

\* The colour pairs (foreground, background) of the rendered components.
ColorPairs == {<<"Reset", "Reset">>, <<"Red", "Blue">>}

\* The property stores of the rendered list: visible or hidden, styled or
\* not, with or without a highlighted colour, scrollable or not, empty or not.
RenderPropsSet ==
    {WithStyle(MkProps(t, NoPayload, sc), v, cp[1], cp[2], hl) :
        t \in {PTable(TableOfRows(0)), PTable(TableOfRows(MaxRows))},
        sc \in {NoPayload, PBool(TRUE), PBool(FALSE)},
        v \in BOOLEAN,
        cp \in ColorPairs,
        hl \in {NoColor, "Yellow"}}

\* The events sent to the rendered list.
RenderEvents == {EventKey(KeyEventFrom(code)) : code \in KeyCodes} \cup NonKeyEvents

InitRender ==
    \E p \in RenderPropsSet, lp \in LabelPropsSet :
        /\ props = List_new(p).props
        /\ states = List_new(p).states
        /\ msg = NoReturn
        /\ last = Called("new", NoEvent)
        /\ IdleScript
        /\ IdleBuilder
        /\ IdleView
        /\ IdleLoop
        /\ ret = <<>>
        /\ frame = <<>>
        /\ label = Label_new(lp)

\* component.render(frame, area) on the list; render takes &self
Render ==
    /\ frame' = List_render(component)
    /\ msg' = NoReturn
    /\ last' = Called("render", NoEvent)
    /\ UNCHANGED <<props, states, script_pc, trace, outside>>
    /\ ret' = <<>>

\* component.render(frame, area) on the label; render takes &self
RenderLabel ==
    /\ frame' = Label_render(label)
    /\ msg' = NoReturn
    /\ last' = Called("label.render", NoEvent)
    /\ UNCHANGED <<props, states, script_pc, trace, outside>>
    /\ ret' = <<>>

\* component.update(component.get_props())
UpdateGetProps ==
    LET c == List_update(component, List_get_props(component))
    IN  /\ props' = c.props
        /\ states' = c.states
        /\ msg' = List_update_msg(component, List_get_props(component))
        /\ last' = Called("update(get_props)", NoEvent)
        /\ frame' = <<>>
        /\ UNCHANGED <<script_pc, trace, outside>>
        /\ ret' = <<>>

NextRender ==
    \/ \E ev \in RenderEvents : On(ev)
    \/ \E p \in RenderPropsSet : Update(p)
    \/ Active
    \/ Blur
    \/ Render
    \/ RenderLabel
    \/ UpdateGetProps

SpecRender == InitRender /\ [][NextRender]_vars

\* ------------------------------------------------------------------------
\* A List and a Label side by side: every method of the component contract
\* ------------------------------------------------------------------------

\* The property stores of the list: empty or not, scrollable or not.
ComponentPropsSet ==
    {MkProps(t, NoPayload, sc) :
        t \in {PTable(TableOfRows(0)), PTable(TableOfRows(MaxRows))},
        sc \in {NoPayload, PBool(TRUE)}}

\* The events sent to the two components.
ComponentEvents ==
    {EventKey(KeyEventFrom(code)) : code \in {"Down", "Up", "Delete"}} \cup NonKeyEvents

InitComponents ==
    \E p \in ComponentPropsSet, lp \in LabelPropsSet :
        /\ props = List_new(p).props
        /\ states = List_new(p).states
        /\ msg = NoReturn
        /\ last = Called("new", NoEvent)
        /\ IdleScript
        /\ IdleBuilder
        /\ IdleView
        /\ IdleLoop
        /\ ret = <<>>
        /\ frame = <<>>
        /\ label = Label_new(lp)

\* The frame of a call on the label: the list and everything else but the
\* label, the returned values and the call record stay.
LabelCall(op, ev, l, m, r) ==
    /\ label' = l
    /\ msg' = m
    /\ ret' = r
    /\ last' = Called(op, ev)
    /\ frame' = <<>>
    /\ UNCHANGED <<props, states, script_pc, trace, builderVars, viewVars, loopVars>>

\* component.get_state() on the list; get_state takes &self
GetState ==
    /\ ret' = <<List_get_state(component)>>
    /\ msg' = NoReturn
    /\ last' = Called("get_state", NoEvent)
    /\ frame' = <<>>
    /\ UNCHANGED <<props, states, script_pc, trace, outside>>

\* component.get_props() on the list; get_props takes &self
GetProps ==
    /\ ret' = <<List_get_props(component)>>
    /\ msg' = NoReturn
    /\ last' = Called("get_props", NoEvent)
    /\ frame' = <<>>
    /\ UNCHANGED <<props, states, script_pc, trace, outside>>

\* component.on(ev) on the label
LabelOn(ev) ==
    LabelCall("label.on", ev, Label_on(label, ev), Label_on_msg(label, ev), <<>>)

\* component.update(p) on the label
LabelUpdate(p) ==
    LabelCall("label.update", NoEvent, Label_update(label, p), Label_update_msg(label, p), <<>>)

\* component.active() on the label
LabelActive ==
    LabelCall("label.active", NoEvent, Label_active(label), NoReturn, <<>>)

\* component.blur() on the label
LabelBlur ==
    LabelCall("label.blur", NoEvent, Label_blur(label), NoReturn, <<>>)

\* component.get_state() on the label
LabelGetState ==
    LabelCall("label.get_state", NoEvent, label, NoReturn, <<Label_get_state(label)>>)

\* component.get_props() on the label
LabelGetProps ==
    LabelCall("label.get_props", NoEvent, label, NoReturn, <<Label_get_props(label)>>)

NextComponents ==
    \/ \E ev \in ComponentEvents : On(ev)
    \/ \E p \in ComponentPropsSet : Update(p)
    \/ Active
    \/ Blur
    \/ GetState
    \/ GetProps
    \/ Render
    \/ RenderLabel
    \/ \E ev \in ComponentEvents : LabelOn(ev)
    \/ \E p \in LabelPropsSet : LabelUpdate(p)
    \/ LabelActive
    \/ LabelBlur
    \/ LabelGetState
    \/ LabelGetProps

SpecComponents == InitComponents /\ [][NextComponents]_vars

\* ------------------------------------------------------------------------
\* Building props: setters chained on a builder, then build
\* ------------------------------------------------------------------------

BuilderKinds == {"List", "Label"}

\* The colours handed to with_foreground.
BuilderColors == {"Red"}

\* The list the builder (unused) stands beside.
IdleList == List_new(MkProps(NoPayload, NoPayload, NoPayload))

InitBuilder ==
    /\ props = IdleList.props
    /\ states = IdleList.states
    /\ msg = NoReturn
    /\ last = Called("new", NoEvent)
    /\ IdleScript
    /\ frame = <<>>
    /\ label = Label_new(MkLabelProps(TRUE, NoPayload))
    /\ builder = Builder_default
    /\ builder_kind \in BuilderKinds
    /\ built = <<>>
    /\ panicked = FALSE
    /\ IdleView
    /\ IdleLoop
    /\ ret = <<>>

\* The frame of every step of the builder: the program has not panicked, and
\* only the builder's variables and the call record change.
BuilderCall(op) ==
    /\ ~panicked
    /\ last' = Called(op, NoEvent)
    /\ UNCHANGED <<props, states, msg, script_pc, trace, frame, label, viewVars, loopVars>>
    /\ ret' = <<>>

\* A setter: the builder becomes b, nothing is returned but &mut Self.
Setter(op, b) ==
    /\ BuilderCall(op)
    /\ builder' = b
    /\ UNCHANGED <<builder_kind, built, panicked>>

\* XPropsBuilder::default()
NewBuilder(kind) ==
    /\ BuilderCall("default")
    /\ builder' = Builder_default
    /\ builder_kind' = kind
    /\ UNCHANGED <<built, panicked>>

\* XPropsBuilder::from(props), with the props of the last build
BuilderFromBuilt ==
    /\ built # <<>>
    /\ BuilderCall("from")
    /\ builder' = Builder_from(built[1])
    /\ UNCHANGED <<builder_kind, built, panicked>>

\* builder.build()
Build ==
    /\ BuilderCall("build")
    /\ LET out == IF builder_kind = "List"
                  THEN ListBuilder_build(builder)
                  ELSE LabelBuilder_build(builder)
       IN  /\ builder' = out.builder
           /\ built' = out.built
           /\ panicked' = out.panicked
    /\ UNCHANGED builder_kind

NextBuilder ==
    \/ \E kind \in BuilderKinds : NewBuilder(kind)
    \/ BuilderFromBuilt
    \/ Build
    \/ Setter("hidden", Builder_hidden(builder))
    \/ Setter("visible", Builder_visible(builder))
    \/ \E c \in BuilderColors : Setter("with_foreground", Builder_with_foreground(builder, c))
    \/ builder_kind = "List"
          /\ Setter("with_rows", ListBuilder_with_rows(builder, TableOfRows(MaxRows)))
    \/ \E b \in BOOLEAN :
          builder_kind = "List" /\ Setter("scrollable", ListBuilder_scrollable(builder, b))
    \/ builder_kind = "Label"
          /\ Setter("with_text", LabelBuilder_with_text(builder, "Hello, world!"))

SpecBuilder == InitBuilder /\ [][NextBuilder]_vars

\* ------------------------------------------------------------------------
\* The view: components mounted, unmounted, activated, fed events, updated
\* ------------------------------------------------------------------------

\* The identifiers components are mounted under.
Ids == {"A", "B"}

\* The properties of the lists and labels mounted and passed to update.
ViewListProps ==
    {MkProps(PTable(TableOfRows(MaxRows)), NoPayload, PBool(TRUE)),
     MkProps(PTable(TableOfRows(1)), NoPayload, NoPayload)}

ViewLabelProps == {MkLabelProps(TRUE, PStr("Hello, world!")), MkLabelProps(FALSE, NoPayload)}

\* Box::new(List::new(props)), Box::new(Label::new(props))
NewComponents ==
    {BoxList(List_new(p)) : p \in ViewListProps}
        \cup {BoxLabel(Label_new(p)) : p \in ViewLabelProps}

\* The attributes set through the view, each with its value.
ViewAttrs == {<<PROP_SCROLLABLE, PBool(FALSE)>>, <<PROP_TEXT, PStr("Bye")>>}

\* The events handed to the view.
ViewEvents ==
    {EventKey(KeyEventFrom("Down")), EventKey(KeyEventFrom("Delete")),
     [type |-> "Mouse", key |-> NoKey]}

\* The view of the state.
view == [components |-> components, focus |-> view_focus]

InitView ==
    /\ props = IdleList.props
    /\ states = IdleList.states
    /\ msg = NoReturn
    /\ last = Called("View::init", NoEvent)
    /\ IdleScript
    /\ IdleBuilder
    /\ frame = <<>>
    /\ label = Label_new(MkLabelProps(TRUE, NoPayload))
    /\ IdleView
    /\ IdleLoop
    /\ ret = <<>>

\* The frame of every call on the view: only the view, the returned message
\* and the call record change.
ViewCall(op, ev, id, v, result, m) ==
    /\ last' = Called(op, ev)
    /\ view_id' = id
    /\ components' = v.components
    /\ view_focus' = v.focus
    /\ view_result' = result
    /\ msg' = m
    /\ UNCHANGED <<props, states, script_pc, trace, frame, label, builderVars, loopVars>>

\* view.mount(id, component)
Mount(id, b) ==
    /\ ViewCall("view.mount", NoEvent, id, View_mount(view, id, b), "Ok", NoReturn)
    /\ view_arg' = <<b>>
    /\ ret' = <<>>

\* view.unmount(id)
Unmount(id) ==
    /\ ViewCall("view.unmount", NoEvent, id, View_unmount(view, id), "Ok", NoReturn)
    /\ view_arg' = <<>>
    /\ ret' = <<>>

\* view.active(id)
ViewActive(id) ==
    LET out == View_active(view, id)
    IN  /\ ViewCall("view.active", NoEvent, id, out.view, out.result, NoReturn)
        /\ view_arg' = <<>>
        /\ ret' = <<>>

\* view.on(ev)
ViewOn(ev) ==
    LET out == View_on(view, ev)
    IN  /\ ViewCall("view.on", ev, NoId, out.view, out.result, out.msg)
        /\ view_arg' = <<>>
        /\ ret' = <<>>

\* view.get_props(id)
ViewGetProps(id) ==
    LET out == View_get_props(view, id)
    IN  /\ ViewCall("view.get_props", NoEvent, id, view, out.result, NoReturn)
        /\ view_arg' = <<>>
        /\ ret' = out.props

\* view.attr(id, attr, value), with an attribute of the component's kind when
\* one is mounted under id
ViewAttr(id, attr, value) ==
    /\ id \in DOMAIN components => attr \in DOMAIN components[id].props.own
    /\ LET out == View_attr(view, id, attr, value)
       IN  ViewCall("view.attr", NoEvent, id, out.view, out.result, out.msg)
    /\ view_arg' = <<<<attr, value>>>>
    /\ ret' = <<>>

\* view.update(id, props), with properties of the component's kind when one
\* is mounted under id
ViewUpdate(id, p) ==
    /\ id \in DOMAIN components
          => p \in (IF components[id].kind = "List" THEN ViewListProps ELSE ViewLabelProps)
    /\ LET out == View_update(view, id, p)
       IN  ViewCall("view.update", NoEvent, id, out.view, out.result, out.msg)
    /\ view_arg' = <<p>>
    /\ ret' = <<>>

NextView ==
    \/ \E id \in Ids, b \in NewComponents : Mount(id, b)
    \/ \E id \in Ids : Unmount(id)
    \/ \E id \in Ids : ViewActive(id)
    \/ \E ev \in ViewEvents : ViewOn(ev)
    \/ \E id \in Ids, p \in ViewListProps \cup ViewLabelProps : ViewUpdate(id, p)
    \/ \E id \in Ids : ViewGetProps(id)
    \/ \E id \in Ids, a \in ViewAttrs : ViewAttr(id, a[1], a[2])

SpecView == InitView /\ [][NextView]_vars

\* ------------------------------------------------------------------------
\* The next update built from the current properties:
\* ListPropsBuilder::from(component.get_props()) ... .build(), then update
\* ------------------------------------------------------------------------

InitCopy ==
    /\ props = List_new(MkProps(PTable(TableOfRows(MaxRows)), NoPayload, PBool(TRUE))).props
    /\ states = List_new(MkProps(PTable(TableOfRows(MaxRows)), NoPayload, PBool(TRUE))).states
    /\ msg = NoReturn
    /\ last = Called("new", NoEvent)
    /\ IdleScript
    /\ IdleBuilder
    /\ IdleView
    /\ IdleLoop
    /\ ret = <<>>
    /\ frame = <<>>
    /\ label = Label_new(MkLabelProps(TRUE, NoPayload))

\* ListPropsBuilder::from(component.get_props())
FromGetProps ==
    /\ BuilderCall("from(get_props)")
    /\ builder' = Builder_from(List_get_props(component))
    /\ UNCHANGED <<builder_kind, built, panicked>>

\* component.update(props), with the properties the builder returned
UpdateBuilt ==
    /\ built # <<>>
    /\ Update(built[1])

NextCopy ==
    \/ GetProps
    \/ FromGetProps
    \/ Setter("hidden", Builder_hidden(builder))
    \/ Setter("with_rows", ListBuilder_with_rows(builder, TableOfRows(1)))
    \/ builder # <<>> /\ Build
    \/ UpdateBuilt
    \/ On(EventKey(KeyEventFrom("Down")))
    \/ Active

SpecCopy == InitCopy /\ [][NextCopy]_vars

\* ------------------------------------------------------------------------
\* The style modifiers of a builder
\* ------------------------------------------------------------------------

\* The modifier setters, each with the flag it sets.
ModifierOf ==
    [bold          |-> "BOLD",
     italic        |-> "ITALIC",
     underlined    |-> "UNDERLINED",
     slow_blink    |-> "SLOW_BLINK",
     rapid_blink   |-> "RAPID_BLINK",
     reversed      |-> "REVERSED",
     strikethrough |-> "CROSSED_OUT"]

ModifierSetters == DOMAIN ModifierOf

Modifiers == {ModifierOf[name] : name \in ModifierSetters}

\* builder.bold(), builder.italic(), ...
ModifierSetter(name) == Setter(name, Builder_modifier(builder, ModifierOf[name]))

NextModifiers ==
    \/ \E name \in ModifierSetters : ModifierSetter(name)
    \/ Build

SpecModifiers == InitBuilder /\ [][NextModifiers]_vars

\* ------------------------------------------------------------------------
\* The update loop of the gallery example, one step per statement
\* ------------------------------------------------------------------------

\* The events the input handler returns.
LoopEvents ==
    {EventKey(KeyEventFrom("Esc")), EventKey(KeyEventFrom("Tab")),
     EventKey(KeyEventFrom("Down")), [type |-> "Resize", key |-> NoKey]}

\* init_view: the components are mounted and the first is given the focus
init_view ==
    View_active(
        View_mount(
            View_mount(View_init, COMPONENT_SCROLLIST,
                       BoxList(List_new(MkProps(PTable(TableOfRows(MaxRows)),
                                                NoPayload, PBool(TRUE))))),
            COMPONENT_LABEL,
            BoxLabel(Label_new(MkLabelProps(TRUE, PStr("Hello, world!"))))),
        COMPONENT_SCROLLIST).view

\* Model::new, then the loop is entered
InitLoop ==
    /\ props = IdleList.props
    /\ states = IdleList.states
    /\ msg = NoReturn
    /\ last = Called("Model::new", NoEvent)
    /\ IdleScript
    /\ IdleBuilder
    /\ frame = <<>>
    /\ label = Label_new(MkLabelProps(TRUE, NoPayload))
    /\ ret = <<>>
    /\ components = init_view.components
    /\ view_focus = init_view.focus
    /\ view_id = NoId
    /\ view_result = "Ok"
    /\ view_arg = <<>>
    /\ pc = "while"
    /\ quit = FALSE
    /\ redraw = TRUE
    /\ event = <<>>
    /\ loop_msg = <<>>
    /\ progress = 0
    /\ undrawn = FALSE

\* The frame of every step of the loop: the loop is at position at and goes
\* to position to; nothing changes outside the model and the view.
LoopStep(at, to) ==
    /\ pc = at
    /\ pc' = to
    /\ last' = Called(at, NoEvent)
    /\ UNCHANGED <<props, states, msg, script_pc, trace, label, builderVars, ret,
                   view_id, view_result, view_arg>>

\* while !model.quit
LoopCheck ==
    /\ LoopStep("while", IF LoopContinues(quit) THEN "read" ELSE "done")
    /\ frame' = <<>>
    /\ UNCHANGED <<components, view_focus, quit, redraw, event, loop_msg, progress, undrawn>>

\* if let Ok(Some(ev)) = ctx.input_hnd.read_event(): an event was read
ReadEvent(ev) ==
    /\ LoopStep("read", "on")
    /\ event' = <<ev>>
    /\ frame' = <<>>
    /\ UNCHANGED <<components, view_focus, quit, redraw, loop_msg, progress, undrawn>>

\* if let Ok(Some(ev)) = ctx.input_hnd.read_event(): no event was read
ReadNothing ==
    /\ LoopStep("read", "draw?")
    /\ event' = <<>>
    /\ frame' = <<>>
    /\ UNCHANGED <<components, view_focus, quit, redraw, loop_msg, progress, undrawn>>

\* let msg = model.view.on(ev)
LoopOn ==
    /\ LoopStep("on", "redraw")
    /\ components' = View_on(view, event[1]).view.components
    /\ view_focus' = View_on(view, event[1]).view.focus
    /\ loop_msg' = View_on_result(view, event[1])
    /\ undrawn' = TRUE
    /\ frame' = <<>>
    /\ UNCHANGED <<quit, redraw, event, progress>>

\* model.redraw()
LoopRedraw ==
    /\ LoopStep("redraw", "update")
    /\ redraw' = Model_redraw(redraw)
    /\ frame' = <<>>
    /\ UNCHANGED <<components, view_focus, quit, event, loop_msg, progress, undrawn>>

\* model.update(msg)
LoopUpdate ==
    /\ LoopStep("update", "draw?")
    /\ LET out == Model_update(view, quit, progress, loop_msg)
       IN  /\ components' = out.view.components
           /\ view_focus' = out.view.focus
           /\ quit' = out.quit
           /\ progress' = out.progress
    /\ loop_msg' = <<>>
    /\ event' = <<>>
    /\ frame' = <<>>
    /\ UNCHANGED <<redraw, undrawn>>

\* if model.redraw || model.last_redraw.elapsed() > 50 ms
LoopDrawCheck(elapsed) ==
    /\ LoopStep("draw?", IF redraw \/ elapsed THEN "view" ELSE "sleep")
    /\ frame' = <<>>
    /\ UNCHANGED <<components, view_focus, quit, redraw, event, loop_msg, progress, undrawn>>

\* view(&mut ctx, &model.view): every component is rendered
LoopView ==
    /\ LoopStep("view", "reset")
    /\ frame' = View_render(view, COMPONENT_LABEL) \o View_render(view, COMPONENT_SCROLLIST)
    /\ undrawn' = FALSE
    /\ UNCHANGED <<components, view_focus, quit, redraw, event, loop_msg, progress>>

\* model.reset()
LoopReset ==
    /\ LoopStep("reset", "sleep")
    /\ redraw' = Model_reset(redraw)
    /\ frame' = <<>>
    /\ UNCHANGED <<components, view_focus, quit, event, loop_msg, progress, undrawn>>

\* sleep(10 ms)
LoopSleep ==
    /\ LoopStep("sleep", "while")
    /\ frame' = <<>>
    /\ UNCHANGED <<components, view_focus, quit, redraw, event, loop_msg, progress, undrawn>>

NextLoop ==
    \/ LoopCheck
    \/ \E ev \in LoopEvents : ReadEvent(ev)
    \/ ReadNothing
    \/ LoopOn
    \/ LoopRedraw
    \/ LoopUpdate
    \/ \E elapsed \in BOOLEAN : LoopDrawCheck(elapsed)
    \/ LoopView
    \/ LoopReset
    \/ LoopSleep

\* The loop runs on one thread and none of its statements blocks for ever:
\* while a statement can be executed, one eventually is.
SpecLoop == InitLoop /\ [][NextLoop]_vars /\ WF_vars(NextLoop)

\* ------------------------------------------------------------------------
\* The scripted key sequence of test_components_list_scrollable
\* ------------------------------------------------------------------------

\* Rows of the table of the scripted list.
ScriptRows == 9

\* The max-step of the scripted list.
ScriptStep == 4

\* The keys fed to the list, in order.
Script == <<"Down", "Down", "PageDown", "PageDown", "PageUp", "PageUp", "End", "Home">>

\* The scripted list, and its neighbours: scrollable lists of up to
\* ScriptRows + 1 rows with any step.
ScriptProps ==
    {MkProps(PTable(TableOfRows(n)), s, PBool(TRUE)) :
        n \in 0..(ScriptRows + 1), s \in StepEntries \cup {PUsize(ScriptStep)}}

InitScript ==
    \E p \in ScriptProps :
        /\ props = List_new(p).props
        /\ states = List_new(p).states
        /\ msg = NoReturn
        /\ last = Called("new", NoEvent)
        /\ IdleScript
        /\ IdleBuilder
        /\ IdleView
        /\ IdleLoop
        /\ ret = <<>>
        /\ frame = <<>>
        /\ label = Label_new(MkLabelProps(TRUE, NoPayload))

\* component.on(Event::Key(KeyEvent::from(code))) for the next key of the script
ScriptKey ==
    /\ script_pc < Len(Script)
    /\ LET ev == EventKey(KeyEventFrom(Script[script_pc + 1]))
           c  == List_on(component, ev)
       IN  /\ props' = c.props
           /\ states' = c.states
           /\ msg' = List_on_msg(component, ev)
           /\ last' = Called("on", ev)
           /\ script_pc' = script_pc + 1
           /\ trace' = Append(trace, c.states.list_index)
           /\ frame' = <<>>
           /\ ret' = <<>>
           /\ UNCHANGED outside

\* The focus notifications may arrive between any two keys.
NextScript ==
    \/ ScriptKey
    \/ Active
    \/ Blur

SpecScript == InitScript /\ [][NextScript]_vars

\* ------------------------------------------------------------------------
\* One ListPropsBuilder used past its build: every family of setters and
\* build, without a new builder
\* ------------------------------------------------------------------------

InitSpent == InitBuilder /\ builder_kind = "List"

SpentSetters ==
    {"hidden", "visible", "with_foreground", "with_background", "bold",
     "with_rows", "with_title", "with_max_scroll_step", "scrollable"}

NextSpent ==
    \/ Build
    \/ Setter("hidden", Builder_hidden(builder))
    \/ Setter("visible", Builder_visible(builder))
    \/ \E c \in BuilderColors : Setter("with_foreground", Builder_with_foreground(builder, c))
    \/ \E c \in BuilderColors : Setter("with_background", Builder_with_background(builder, c))
    \/ Setter("bold", Builder_modifier(builder, "BOLD"))
    \/ Setter("with_rows", ListBuilder_with_rows(builder, TableOfRows(MaxRows)))
    \/ Setter("with_title", ListBuilder_with_title(builder, "events"))
    \/ Setter("with_max_scroll_step", ListBuilder_with_max_scroll_step(builder, MaxStep))
    \/ \E b \in BOOLEAN : Setter("scrollable", ListBuilder_scrollable(builder, b))

SpecSpent == InitSpent /\ [][NextSpent]_vars

\* ------------------------------------------------------------------------
\* Properties
\* ------------------------------------------------------------------------

Min(a, b) == IF a < b THEN a ELSE b

Max(a, b) == IF a > b THEN a ELSE b

NavigationKeys == {"Down", "Up", "PageDown", "PageUp", "Home", "End"}

\* The step is a call of on with a key event of the given code.
OnKeyStep(code) ==
    /\ last'.op = "on"
    /\ last'.ev.type = "Key"
    /\ last'.ev.key.code = code

\* The last call was on with a key event of the given code.
LastOnKey(code) ==
    /\ last.op = "on"
    /\ last.ev.type = "Key"
    /\ last.ev.key.code = code

\* The page step the property store asks for: the "max-step" entry when it
\* is a Usize, else 8.
PageStep ==
    IF props.own["max-step"][1] = "Usize" THEN props.own["max-step"][2] ELSE 8

\* The list is configured scrollable: its "scrollable" entry is Bool(true).
IsScrollable == props.own["scrollable"] = <<"Bool", TRUE>>

\* C1: in every state reachable from List::new by on, update, active and
\* blur, length = 0 implies index = 0 and length > 0 implies index < length.
C1_IndexInBounds ==
    /\ states.list_index >= 0
    /\ states.list_len = 0 => states.list_index = 0
    /\ states.list_len > 0 => states.list_index < states.list_len

\* C1 witness: an update shrank the table below the index, which now sits on
\* the last row of a non-empty list.
C1_Witness ==
    /\ last.op = "update"
    /\ states.list_len > 0
    /\ states.list_index > 0
    /\ states.list_index = states.list_len - 1

\* C2 as stated: a call of on changes the index only while the list is
\* scrollable AND its focus flag is true.
C2_AsStated ==
    [][(last'.op = "on" /\ states'.list_index # states.list_index)
          => (IsScrollable /\ states.focus)]_vars

\* C2 amended: a call of on changes the index only on a navigation key and
\* only while the list is configured scrollable; the focus flag is not
\* consulted.
C2_OnlyWhileScrollable ==
    [][(last'.op = "on" /\ states'.list_index # states.list_index)
          => /\ IsScrollable
             /\ last'.ev.type = "Key"
             /\ last'.ev.key.code \in NavigationKeys]_vars

\* C2 witness: Down was handled by a scrollable list whose focus flag is
\* false, and the index is off the first row.
C2_Witness ==
    /\ LastOnKey("Down")
    /\ IsScrollable
    /\ ~states.focus
    /\ states.list_index > 0

\* C3: every key event passed to on returns OnKey carrying exactly that key.
C3_KeyEchoed ==
    (last.op = "on" /\ last.ev.type = "Key") => msg = [type |-> "OnKey", key |-> last.ev.key]

\* C3 witness: Down with a modifier at the last row of a scrollable,
\* unfocused list (a no-op navigation) was answered.
C3_Witness ==
    /\ LastOnKey("Down")
    /\ last.ev.key.modifiers = "SHIFT"
    /\ IsScrollable
    /\ ~states.focus
    /\ states.list_len > 1
    /\ states.list_index = states.list_len - 1
    /\ msg.type = "OnKey"

\* C4: a non-key event passed to on returns Msg::None and leaves index,
\* length, focus and properties unchanged.
C4_NonKeyIgnored ==
    [][(last'.op = "on" /\ last'.ev.type # "Key")
          => /\ msg' = [type |-> "None", key |-> NoKey]
             /\ states' = states
             /\ props' = props]_vars

\* C4 witness: a resize reached a scrollable, focused list with the index
\* off the first row.
C4_Witness ==
    /\ last.op = "on"
    /\ last.ev.type = "Resize"
    /\ IsScrollable
    /\ states.focus
    /\ states.list_index > 0
    /\ msg.type = "None"

\* C5: on a scrollable list Down sets index to min(index + 1, length - 1):
\* one row further when index < length - 1, unchanged on the last row or on
\* an empty list.
C5_Down ==
    [][(OnKeyStep("Down") /\ IsScrollable)
          => /\ states.list_len > 0 =>
                    states'.list_index = Min(states.list_index + 1, states.list_len - 1)
             /\ states.list_index < states.list_len - 1 =>
                    states'.list_index = states.list_index + 1
             /\ (states.list_len = 0 \/ states.list_index = states.list_len - 1) =>
                    states'.list_index = states.list_index]_vars

\* C5 witness: Down was handled with the index now on the last row of a list
\* of several rows.
C5_Witness ==
    /\ LastOnKey("Down")
    /\ IsScrollable
    /\ states.list_len > 2
    /\ states.list_index = states.list_len - 1

\* C6: on a scrollable list Up sets index to max(index - 1, 0).
C6_Up ==
    [][(OnKeyStep("Up") /\ IsScrollable)
          => /\ states'.list_index = Max(states.list_index - 1, 0)
             /\ states.list_index > 0 => states'.list_index = states.list_index - 1
             /\ states.list_index = 0 => states'.list_index = 0]_vars

\* C6 witness: Up was handled and left the index between the first and the
\* last row.
C6_Witness ==
    /\ LastOnKey("Up")
    /\ IsScrollable
    /\ states.list_index > 0
    /\ states.list_index < states.list_len - 1

\* C7: on a scrollable list PageDown sets index to
\* index + min(S, length - 1 - index), S the configured max-step (8 when not
\* configured); on an empty list index stays 0.
C7_PageDown ==
    [][(OnKeyStep("PageDown") /\ IsScrollable)
          => /\ states.list_len > 0 =>
                    states'.list_index =
                        states.list_index
                            + Min(PageStep, states.list_len - 1 - states.list_index)
             /\ states.list_len = 0 => states'.list_index = 0]_vars

\* C7 witness: PageDown with the default step was handled on a list longer
\* than the default step, and stopped short of the last row.
C7_Witness ==
    /\ LastOnKey("PageDown")
    /\ IsScrollable
    /\ props.own["max-step"][1] # "Usize"
    /\ states.list_index = 8
    /\ states.list_index < states.list_len - 1

\* C8: on a scrollable list PageUp sets index to index - min(S, index), S the
\* configured max-step (8 when not configured).
C8_PageUp ==
    [][(OnKeyStep("PageUp") /\ IsScrollable)
          => states'.list_index = states.list_index - Min(PageStep, states.list_index)]_vars

\* C8 witness: PageUp with the default step was handled and stopped short of
\* the first row.
C8_Witness ==
    /\ LastOnKey("PageUp")
    /\ IsScrollable
    /\ props.own["max-step"][1] # "Usize"
    /\ states.list_index = 1

\* C9: on a scrollable list Home sets index to 0 and End sets index to
\* length - 1 from any index; End on an empty list sets index to 0.
C9_HomeEnd ==
    [][IsScrollable
          => /\ OnKeyStep("Home") => states'.list_index = 0
             /\ (OnKeyStep("End") /\ states.list_len > 0) =>
                    states'.list_index = states.list_len - 1
             /\ (OnKeyStep("End") /\ states.list_len = 0) =>
                    states'.list_index = 0]_vars

\* C9 witness: End was handled on a list of several rows and the index is on
\* its last row.
C9_Witness ==
    /\ LastOnKey("End")
    /\ IsScrollable
    /\ states.list_len > 2
    /\ states.list_index = states.list_len - 1

\* The index trace of the scripted scenario.
ExpectedTrace == <<1, 2, 6, 8, 4, 0, 8, 0>>

\* The scripted list has 9 rows and max-step 4.
IsScriptedList ==
    /\ IsScrollable
    /\ props.own["table"][1] = "Table"
    /\ Len(props.own["table"][2]) = ScriptRows
    /\ props.own["max-step"] = <<"Usize", ScriptStep>>

\* C10: a scrollable list with 9 rows and max-step 4, starting at index 0,
\* fed Down, Down, PageDown, PageDown, PageUp, PageUp, End, Home, goes
\* through the indices 1, 2, 6, 8, 4, 0, 8, 0.
C10_ScriptTrace ==
    IsScriptedList =>
        /\ trace = SubSeq(ExpectedTrace, 1, script_pc)
        /\ script_pc = 0 => states.list_index = 0

\* C10 witness: the whole script was fed to the scripted list.
C10_Witness ==
    /\ IsScriptedList
    /\ script_pc = Len(Script)
    /\ Len(trace) = Len(Script)

\* The row count of the "table" entry of a property store: 0 when the entry
\* is absent or not a table.
RowsOf(p) ==
    IF p.own["table"][1] = "Table" THEN Len(p.own["table"][2]) ELSE 0

\* C11: after every update(props), grown, shrunk or same table, length is the
\* row count of the new table and index is the old index if it is below the
\* new length, else length - 1 (0 when the new length is 0).
C11_UpdateClamps ==
    [][last'.op = "update"
          => /\ states'.list_len = RowsOf(props')
             /\ states.list_index < RowsOf(props') =>
                    states'.list_index = states.list_index
             /\ (states.list_index >= RowsOf(props') /\ RowsOf(props') > 0) =>
                    states'.list_index = RowsOf(props') - 1
             /\ RowsOf(props') = 0 => states'.list_index = 0]_vars

\* C11 witness: an update left a two-row list with the index on its last row.
C11_Witness ==
    /\ last.op = "update"
    /\ states.list_len = 2
    /\ states.list_index = 1

\* C13: active() sets focus to true exactly when the list is configured
\* scrollable at the time of the call; with the flag false, absent or wrongly
\* typed it leaves the focus flag as it was.
C13_ActiveIffScrollable ==
    [][last'.op = "active"
          => /\ IsScrollable => states'.focus = TRUE
             /\ ~IsScrollable => states'.focus = states.focus
             /\ (states'.focus /\ ~states.focus) => IsScrollable]_vars

\* C13 witness: active() was called on a list whose scrollable entry is not a
\* Bool, and the list is still unfocused.
C13_Witness ==
    /\ last.op = "active"
    /\ props.own["scrollable"] = <<"Str", "not-a-bool">>
    /\ ~states.focus

\* C14: blur() always leaves focus = false, whatever the state and the
\* scrollable flag, and blurring a second time changes nothing.
C14_BlurIdempotent ==
    /\ [](List_blur(List_blur(component)) = List_blur(component))
    /\ [][last'.op = "blur"
             => /\ states'.focus = FALSE
                /\ states'.list_index = states.list_index
                /\ states'.list_len = states.list_len
                /\ props' = props
                /\ ~states.focus => states' = states]_vars

\* C14 witness: blur() was called on a scrollable list that has rows.
C14_Witness ==
    /\ last.op = "blur"
    /\ IsScrollable
    /\ states.list_index > 0
    /\ ~states.focus

\* C18: a missing or wrongly typed payload entry falls back to a default: a
\* "table" entry that is no table gives length 0, a "max-step" entry that is
\* no Usize gives page step 8, and a "scrollable" entry that is no Bool makes
\* the list non-scrollable (keys leave its states alone, active() does not
\* focus it).
C18_PayloadDefaults ==
    /\ [](props.own["table"][1] # "Table" => states.list_len = 0)
    /\ [][(OnKeyStep("PageDown") /\ IsScrollable /\ props.own["max-step"][1] # "Usize"
              /\ states.list_len > 0)
             => states'.list_index
                    = states.list_index + Min(8, states.list_len - 1 - states.list_index)]_vars
    /\ [][(OnKeyStep("PageUp") /\ IsScrollable /\ props.own["max-step"][1] # "Usize")
             => states'.list_index = states.list_index - Min(8, states.list_index)]_vars
    /\ [][(props.own["scrollable"][1] # "Bool" /\ last'.op \in {"on", "active"})
             => states' = states]_vars

\* C18 witness: PageDown was handled by a ten-row list whose "max-step" entry
\* is a string, and stopped eight rows down.
C18_Witness ==
    /\ LastOnKey("PageDown")
    /\ IsScrollable
    /\ props.own["max-step"] = <<"Str", "not-a-usize">>
    /\ states.list_len = 10
    /\ states.list_index = 8

\* C12: for every reachable list, a scrollable one that has the focus
\* included, update(get_props()) leaves the rendered output unchanged.
C12_RoundTripKeepsRendering ==
    [][last'.op = "update(get_props)"
          => List_render([props |-> props', states |-> states']) = List_render(component)]_vars

\* C15: render draws nothing when the visibility flag is false, and for any
\* visibility it changes neither the properties nor the states, for the List
\* and for the Label.
C15_RenderIsPure ==
    [][last'.op \in {"render", "label.render"}
          => /\ props' = props
             /\ states' = states
             /\ label' = label
             /\ (last'.op = "render" /\ ~props.visible) => frame' = <<>>
             /\ (last'.op = "label.render" /\ ~label.props.visible) => frame' = <<>>]_vars

\* C15 witness: a hidden, focused list with the index off the first row was
\* rendered and nothing was drawn.
C15_Witness ==
    /\ last.op = "render"
    /\ ~props.visible
    /\ states.focus
    /\ states.list_index > 0
    /\ frame = <<>>

\* C16: while a list is not configured scrollable, no key event changes its
\* index, length or focus, every key is answered with OnKey(key), and the
\* list is drawn as active whatever its focus flag is.
C16_NonScrollable ==
    /\ [][(~IsScrollable /\ last'.op = "on" /\ last'.ev.type = "Key")
             => /\ states' = states
                /\ msg' = [type |-> "OnKey", key |-> last'.ev.key]]_vars
    /\ [][(~IsScrollable /\ last'.op = "render" /\ props.visible)
             => /\ frame' # <<>>
                /\ frame'[1].block.active = TRUE]_vars

\* C16 witness: a visible list that is not scrollable and whose focus flag is
\* false was drawn.
C16_Witness ==
    /\ last.op = "render"
    /\ ~IsScrollable
    /\ ~states.focus
    /\ props.visible
    /\ states.list_len > 0
    /\ frame # <<>>

\* C17: build() on a builder that has already been built fails fast instead
\* of returning a store; build() on a builder that has not been built returns
\* the builder's store.
C17_BuildOnce ==
    [][last'.op = "build"
          => /\ builder = <<>> => (panicked' /\ built' = <<>>)
             /\ builder # <<>> => (~panicked' /\ built' = builder)
             /\ builder' = <<>>]_vars

\* C17 witness: a second build() on a spent builder has panicked.
C17_Witness ==
    /\ last.op = "build"
    /\ builder = <<>>
    /\ panicked

\* C19: in every state of the view, after any sequence of mount, unmount,
\* active, on and update, at most one identifier is focused (the focus holds
\* at most one identifier, and a component whose focus flag is set is the one
\* the focus names), and the focused identifier is mounted.
C19_SingleFocus ==
    /\ Len(view_focus) <= 1
    /\ \A i \in 1..Len(view_focus) : view_focus[i] \in DOMAIN components
    /\ \A id \in DOMAIN components :
          Component_has_focus(components[id]) => view_focus = <<id>>
    /\ Cardinality({id \in DOMAIN components : Component_has_focus(components[id])}) <= 1

\* C19 witness: two components are mounted, one of them holds the focus and
\* has taken an event.
C19_Witness ==
    /\ DOMAIN components = Ids
    /\ view_focus # <<>>
    /\ Component_has_focus(components[view_focus[1]])
    /\ last.op = "view.on"

\* C20: unmount(id) removes the entry of id and no other; if id held the
\* focus the focus becomes empty, otherwise the focus is unchanged; and an
\* empty focus stays empty until active is called.
C20_UnmountClearsFocus ==
    [][/\ last'.op = "view.unmount"
            => /\ view_id' \notin DOMAIN components'
               /\ components' = WithoutEntry(components, view_id')
               /\ view_focus = <<view_id'>> => view_focus' = <<>>
               /\ view_focus # <<view_id'>> => view_focus' = view_focus
       /\ (view_focus = <<>> /\ view_focus' # <<>>) => last'.op = "view.active"]_vars

\* C20 witness: the focused component was unmounted while another stays
\* mounted, and calls were made since; the focus is still empty.
C20_Witness ==
    /\ view_focus = <<>>
    /\ last.op = "view.on"
    /\ view_id = NoId
    /\ DOMAIN components # {}
    /\ DOMAIN components # Ids

\* C21: on(event) while no component holds the focus returns the no-op
\* message and changes no component nor the focus; so after the focused list
\* was unmounted, a key leaves the label still mounted as it was.
C21_OnWithoutFocus ==
    [][(last'.op = "view.on" /\ view_focus = <<>>)
          => /\ msg' = MsgNone
             /\ components' = components
             /\ view_focus' = <<>>]_vars

\* C21 witness: only the label B is mounted, nothing holds the focus, and a
\* key event was handed to the view.
C21_Witness ==
    /\ last.op = "view.on"
    /\ last.ev.type = "Key"
    /\ view_focus = <<>>
    /\ DOMAIN components = {"B"}
    /\ components["B"].kind = "Label"
    /\ msg = MsgNone

\* C22: active(id) with an absent id returns an error and leaves the focus
\* and every component (so the focus flag of the focused one) unchanged; with
\* a mounted id it returns Ok, the focus names id alone, the component that
\* held the focus before is blurred, the one of id is activated, and no
\* other component changes.
C22_ActiveTransfersFocus ==
    [][last'.op = "view.active"
          => /\ view_id' \notin DOMAIN components
                  => /\ view_result' = "Err"
                     /\ view_focus' = view_focus
                     /\ components' = components
             /\ view_id' \in DOMAIN components
                  => /\ view_result' = "Ok"
                     /\ view_focus' = <<view_id'>>
                     /\ DOMAIN components' = DOMAIN components
                     /\ \A i \in DOMAIN components :
                           components'[i] =
                              IF i = view_id'
                              THEN Component_active(IF view_focus = <<i>>
                                                    THEN Component_blur(components[i])
                                                    ELSE components[i])
                              ELSE IF view_focus = <<i>>
                                   THEN Component_blur(components[i])
                                   ELSE components[i]
                     /\ \A i \in DOMAIN components \ {view_id'} :
                           ~Component_has_focus(components'[i])]_vars

\* C22 witness: active was called with an identifier that is not mounted
\* while a focused scrollable list is; the call returned an error.
C22_Witness ==
    /\ last.op = "view.active"
    /\ view_result = "Err"
    /\ view_id \notin DOMAIN components
    /\ view_focus # <<>>
    /\ Component_has_focus(components[view_focus[1]])

\* C23: update, get_props and attr called with an identifier that is not
\* mounted return an error (get_props returns no properties) and leave the
\* mapping, every component and the focus unchanged.
C23_AbsentIdIsAnError ==
    [][(last'.op \in {"view.update", "view.get_props", "view.attr"}
           /\ view_id' \notin DOMAIN components)
          => /\ view_result' = "Err"
             /\ ret' = <<>>
             /\ components' = components
             /\ view_focus' = view_focus]_vars

\* C23 witness: update was called with properties on an identifier that is
\* not mounted, while another component is mounted and focused.
C23_Witness ==
    /\ last.op = "view.update"
    /\ view_arg # <<>>
    /\ view_id \notin DOMAIN components
    /\ view_result = "Err"
    /\ view_focus # <<>>

\* C24: mount(id, component) on an identifier already mounted leaves the
\* entry holding exactly the new component (its properties and its states,
\* nothing of the previous one), the other entries as they were, and the
\* number of entries unchanged.
C24_MountReplaces ==
    [][(last'.op = "view.mount" /\ view_id' \in DOMAIN components)
          => /\ components'[view_id'] = view_arg'[1]
             /\ DOMAIN components' = DOMAIN components
             /\ Cardinality(DOMAIN components') = Cardinality(DOMAIN components)
             /\ \A i \in DOMAIN components \ {view_id'} : components'[i] = components[i]]_vars

\* C24 witness: a fresh label was mounted under the identifier that holds
\* the focus, beside another component.
C24_Witness ==
    /\ last.op = "view.mount"
    /\ view_focus = <<view_id>>
    /\ components[view_id].kind = "Label"
    /\ DOMAIN components = Ids

\* C25: get_state returns Payload::None for the List and for the Label,
\* whatever the index, the length and the focus, and changes neither.
C25_GetStateIsNone ==
    [][last'.op \in {"get_state", "label.get_state"}
          => /\ ret' = <<PayloadNone>>
             /\ props' = props
             /\ states' = states
             /\ label' = label]_vars

\* C25 witness: get_state was called on a focused list whose index is off
\* the first row.
C25_Witness ==
    /\ last.op = "get_state"
    /\ states.focus
    /\ states.list_index > 0
    /\ states.list_len > 1
    /\ ret = <<PayloadNone>>

\* C26: update returns Msg::None for every property store, on the List and
\* on the Label.
C26_UpdateReturnsNone ==
    [][last'.op \in {"update", "label.update"} => msg' = MsgNone]_vars

\* C26 witness: update was called on a list that is scrollable and holds
\* MaxRows rows after it, and returned Msg::None.
C26_Witness ==
    /\ last.op = "update"
    /\ states.list_len = MaxRows
    /\ IsScrollable
    /\ msg = MsgNone

\* C30: on(key event) on a Label returns OnKey(that key), on(any other
\* event) returns Msg::None, and on, active and blur leave the Label's
\* properties as they were.
C30_LabelIsStateless ==
    [][last'.op \in {"label.on", "label.active", "label.blur"}
          => /\ label' = label
             /\ (last'.op = "label.on" /\ last'.ev.type = "Key")
                   => msg' = MsgOnKey(last'.ev.key)
             /\ (last'.op = "label.on" /\ last'.ev.type # "Key")
                   => msg' = MsgNone]_vars

\* C30 witness: a hidden label with a text was sent a key and answered
\* OnKey(key).
C30_Witness ==
    /\ last.op = "label.on"
    /\ last.ev.type = "Key"
    /\ msg = MsgOnKey(last.ev.key)
    /\ ~label.props.visible
    /\ Tag(label.props.own[PROP_TEXT]) = "Str"

\* C27: when the palette holds no highlighted colour, a list drawn as active
\* (not scrollable, or scrollable and focused) has the highlight style
\* swapped: its foreground is the background of the properties and its
\* background their foreground.
C27_ActiveHighlightSwapped ==
    [][(/\ last'.op = "render"
        /\ props.visible
        /\ props.palette[COLOR_HIGHLIGHTED] = NoColor
        /\ List_render_active(component))
          => /\ frame'[1].highlight_style.fg = props.background
             /\ frame'[1].highlight_style.bg = props.foreground]_vars

\* C28: get_props returns a store equal to the component's properties, and a
\* builder made from it holds that store; no call on the builder (a setter,
\* build) changes the component's properties or states: the properties
\* change only when update is called.
C28_GetPropsIsACopy ==
    [][/\ last'.op = "get_props"
            => /\ ret' = <<props>>
               /\ props' = props
               /\ states' = states
       /\ last'.op = "from(get_props)" => builder' = <<props>>
       /\ last'.op \in {"from(get_props)", "hidden", "with_rows", "build"}
            => /\ props' = props
               /\ states' = states
       /\ props' # props => last'.op = "update"]_vars

\* C28 witness: the store built from a copy of the properties of a scrollable
\* list was hidden and given another table, while the list is still visible,
\* holds its table and has its index off the first row.
C28_Witness ==
    /\ last.op = "build"
    /\ built # <<>>
    /\ built[1].own[PROP_SCROLLABLE] = PBool(TRUE)
    /\ ~built[1].visible
    /\ built[1].own[PROP_TABLE] = PTable(TableOfRows(1))
    /\ props.visible
    /\ props.own[PROP_TABLE] = PTable(TableOfRows(MaxRows))
    /\ states.list_index > 0

\* C29: a style-modifier setter of a builder only adds its flag to the
\* modifiers and changes nothing else of the store; so the modifiers are the
\* union of the flags set, two setters give the same store in either order,
\* and a setter called twice gives what it gives called once.
C29_ModifiersAccumulate ==
    /\ [][(last'.op \in ModifierSetters /\ builder # <<>>)
             => builder' = <<[builder[1] EXCEPT
                                !.modifiers = builder[1].modifiers \cup {ModifierOf[last'.op]}]>>]_vars
    /\ [](\A f, g \in Modifiers :
             /\ Builder_modifier(Builder_modifier(builder, f), g)
                   = Builder_modifier(Builder_modifier(builder, g), f)
             /\ Builder_modifier(Builder_modifier(builder, f), f)
                   = Builder_modifier(builder, f))

\* C29 witness: the store holds every one of the seven flags, and bold was
\* the last setter called.
C29_Witness ==
    /\ last.op = "bold"
    /\ builder # <<>>
    /\ builder[1].modifiers = Modifiers
    /\ Cardinality(Modifiers) = 7

\* C31: once the Update step has set the quit flag it is never reset, no
\* further event is read or routed through the view and no component
\* changes, the next check of the loop condition leaves the loop, and the
\* loop does leave.
C31_QuitIsFinal ==
    /\ [][quit => quit']_vars
    /\ [](quit => pc \in {"draw?", "view", "reset", "sleep", "while", "done"})
    /\ [][quit => (components' = components /\ view_focus' = view_focus)]_vars
    /\ [][(quit /\ pc = "while") => pc' = "done"]_vars
    /\ (quit ~> (pc = "done"))

\* C31 witness: Esc came from the label, which held the focus after a Tab;
\* the loop has left.
C31_Witness ==
    /\ quit
    /\ pc = "done"
    /\ view_focus = <<COMPONENT_LABEL>>
    /\ progress > 0

\* C32: an event routed through the view sets the dirty flag before the
\* Update step; the flag stays set until the view is drawn, which happens in
\* the same iteration, before the next event is read; and every redraw ends
\* with the dirty flag reset.
C32_EventIsDrawn ==
    /\ [](pc = "update" => (undrawn /\ redraw))
    /\ []((undrawn /\ pc \in {"draw?", "view"}) => redraw)
    /\ [][(pc = "draw?" /\ undrawn) => pc' = "view"]_vars
    /\ [](pc \in {"while", "read", "on"} => ~undrawn)
    /\ [][pc = "reset" => ~redraw']_vars

\* C32 witness: Down was routed to the focused list, which moved its index,
\* the view was drawn with that index selected, and the flag is about to be
\* reset.
C32_Witness ==
    /\ pc = "reset"
    /\ redraw
    /\ ~undrawn
    /\ Len(frame) = 2
    /\ frame[2].selected = <<1>>

\* C33: the index and the length of a List change only in on and update:
\* active, blur, get_props, get_state and render leave both as they were;
\* and on changes neither the length, nor the focus, nor the properties.
C33_OnlyOnAndUpdateMove ==
    [][/\ last'.op \in {"active", "blur", "get_props", "get_state", "render"}
            => /\ states'.list_index = states.list_index
               /\ states'.list_len = states.list_len
       /\ last'.op = "on"
            => /\ states'.list_len = states.list_len
               /\ states'.focus = states.focus
               /\ props' = props
       /\ (states'.list_index # states.list_index \/ states'.list_len # states.list_len)
            => last'.op \in {"on", "update"}]_vars

\* C33 witness: a focused list whose index is off the first row was blurred
\* and kept its index.
C33_Witness ==
    /\ last.op = "blur"
    /\ ~states.focus
    /\ states.list_index > 0

\* C34: in every reachable state of a List, a set focus flag implies that the
\* current properties are configured scrollable, also after update replaced
\* the properties of a focused scrollable list by non-scrollable ones.
C34_FocusImpliesScrollable == states.focus => List_scrollable(component)

\* C35: update(props) clears the focus flag whenever the new properties are
\* configured scrollable, also on a focused list, and leaves the flag as it
\* was when the new properties are not scrollable.
C35_UpdateBlursIffScrollable ==
    [][last'.op = "update"
          => IF IsScrollable' THEN ~states'.focus
                              ELSE states'.focus = states.focus]_vars

\* C35 witness: update gave a focused list properties that are not
\* scrollable, and the list is still focused.
C35_Witness ==
    /\ last.op = "update"
    /\ ~IsScrollable
    /\ states.focus
    /\ states.list_len > 0

\* C37: in every reachable state the cached length is the row count of the
\* "table" entry of the current properties, 0 when the entry is missing or
\* is no table.
C37_LengthIsRowCount ==
    /\ Tag(props.own[PROP_TABLE]) = "Table"
         => states.list_len = Len(Val(props.own[PROP_TABLE]))
    /\ Tag(props.own[PROP_TABLE]) # "Table" => states.list_len = 0

\* C37 witness: update replaced a longer table by a one-row table and the
\* cached length followed.
C37_Witness ==
    /\ last.op = "update"
    /\ Tag(props.own[PROP_TABLE]) = "Table"
    /\ states.list_len = 1
    /\ states.list_index = 0
    /\ ~states.focus
    /\ IsScrollable

\* C38: no subtraction of a List operation leaves the naturals: in every
\* reachable state length - 1 - index (PageDown, when length # 0) and
\* length - 1 (End and fix_list_index, when length > 0) are naturals, the
\* step PageDown computes and the index are naturals, and on an empty list
\* every key, Down, PageDown, PageUp, Up and End among them, leaves the index
\* at 0.
C38_NoUnderflow ==
    /\ [](states.list_len # 0 => states.list_len - 1 - states.list_index >= 0)
    /\ [](states.list_len > 0 => states.list_len - 1 >= 0)
    /\ [](calc_max_step_ahead(states, max_step(props)) >= 0)
    /\ [](states.list_index >= 0 /\ states.list_len >= 0)
    /\ [][(states.list_len = 0 /\ last'.op = "on") => states'.list_index = 0]_vars

\* C38 witness: End was pressed on an empty scrollable list and the index is
\* 0.
C38_Witness ==
    /\ LastOnKey("End")
    /\ IsScrollable
    /\ states.list_len = 0
    /\ states.list_index = 0

\* The component after PageDown immediately followed by PageUp.
PageDownPageUp(c) ==
    List_on(List_on(c, EventKey(KeyEventFrom("PageDown"))),
            EventKey(KeyEventFrom("PageUp")))

\* C40: on a scrollable list whose PageDown is not clamped (index + S <=
\* length - 1, S the configured step), PageDown lands on index + S and the
\* PageUp that follows lands on the original index again.
C40_PageDownPageUpRestores ==
    (IsScrollable /\ states.list_index + PageStep <= states.list_len - 1)
        => /\ List_on(component, EventKey(KeyEventFrom("PageDown"))).states.list_index
                  = states.list_index + PageStep
           /\ PageDownPageUp(component).states.list_index = states.list_index

\* C40 witness: a scrollable list off its first row with a full page below
\* the index, which PageDown moves and PageUp brings back.
C40_Witness ==
    /\ IsScrollable
    /\ states.list_index > 0
    /\ PageStep > 1
    /\ states.list_index + PageStep <= states.list_len - 1
    /\ List_on(component, EventKey(KeyEventFrom("PageDown"))).states.list_index
           > states.list_index
    /\ PageDownPageUp(component).states.list_index = states.list_index

\* A reachable case of the clamped pair: PageDown stops at the last row and
\* the PageUp that follows ends above the original index.
C40_ClampedPairMoves ==
    /\ IsScrollable
    /\ states.list_index + PageStep > states.list_len - 1
    /\ PageDownPageUp(component).states.list_index < states.list_index

\* The List mounted under the focused identifier is scrollable and its own
\* focus flag is clear.
FocusedListWithoutFlag ==
    /\ view_focus # <<>>
    /\ view_focus[1] \in DOMAIN components
    /\ components[view_focus[1]].kind = "List"
    /\ List_scrollable(UnboxList(components[view_focus[1]]))
    /\ ~Component_has_focus(components[view_focus[1]])

\* C36: a scrollable List mounted under the focused identifier has its own
\* focus flag set in every reachable state of the View; in particular, when
\* that held before view.update replaced the properties of the focused List,
\* it holds after the call.
C36_FocusedListHasFlag ==
    [][(/\ ~FocusedListWithoutFlag
        /\ last'.op = "view.update"
        /\ view_focus # <<>>
        /\ view_id' = view_focus[1])
           => ~FocusedListWithoutFlag']_vars

\* C39: a setter called on a builder after its build is ignored: the call
\* does not panic, the builder stays without a property store and the
\* properties built before stay as they were; the build that follows
\* panics.
C39_SpentBuilderIgnoresSetters ==
    /\ [][(builder = <<>> /\ last'.op \in SpentSetters)
             => /\ builder' = <<>>
                /\ ~panicked'
                /\ built' = built]_vars
    /\ [][(builder = <<>> /\ last'.op = "build") => panicked']_vars

\* C39 witness: with_rows was called on a builder that had built a store
\* without rows, and the builder is still spent.
C39_Witness ==
    /\ last.op = "with_rows"
    /\ builder = <<>>
    /\ built # <<>>
    /\ built[1].own[PROP_TABLE] = NoPayload
    /\ ~panicked

====
